---- MODULE Spec2Model ----
(***************************************************************************)
(* Model of update_rfprofiles.py: validation of the RF-profile assignment  *)
(* table against the baseline and the templates (validateAssignments), the *)
(* confirmation gate of main, and the upload of the change-set             *)
(* (upload_profiles) against the Meraki dashboard, whose calls may each    *)
(* fail with an APIError.                                                  *)
(*                                                                         *)
(* Python str values that the code splits, strips or lower-cases are       *)
(* sequences of one-character strings; remote identifiers are opaque       *)
(* strings.  A Python dict is a sequence of <<key, value>> pairs in        *)
(* insertion order.                                                        *)
(***************************************************************************)
EXTENDS Integers, Sequences, FiniteSets, TLC

\* Largest number of rows of the assignment CSV.
MaxRows == 2

-----------------------------------------------------------------------------
\* str helpers

\* str.lower() on one character
LowerChar(c) ==
    CASE c = "A" -> "a"
      [] c = "B" -> "b"
      [] c = "Z" -> "z"
      [] c = "N" -> "n"
      [] c = "O" -> "o"
      [] c = "E" -> "e"
      [] c = "L" -> "l"
      [] OTHER -> c

\* str.lower()
Lower(s) == [i \in 1..Len(s) |-> LowerChar(s[i])]

\* position of the first "," of s, 0 when there is none
FirstComma(s) ==
    IF \E i \in 1..Len(s) : s[i] = ","
    THEN CHOOSE i \in 1..Len(s) : s[i] = "," /\ \A j \in 1..(i - 1) : s[j] # ","
    ELSE 0

RECURSIVE Split(_)
\* str.split(","): "" gives [""], "a,b" gives ["a", "b"]
Split(s) ==
    LET comma == FirstComma(s)
    IN IF comma = 0
       THEN <<s>>
       ELSE <<SubSeq(s, 1, comma - 1)>> \o Split(SubSeq(s, comma + 1, Len(s)))

RECURSIVE LStrip(_)
LStrip(s) == IF s # <<>> /\ Head(s) = " " THEN LStrip(Tail(s)) ELSE s

RECURSIVE RStrip(_)
RStrip(s) == IF s # <<>> /\ s[Len(s)] = " " THEN RStrip(SubSeq(s, 1, Len(s) - 1)) ELSE s

\* str.strip()
Strip(s) == RStrip(LStrip(s))

\* [p.strip() for p in field.split(",")]
SplitStrip(field) ==
    LET parts == Split(field)
    IN [i \in 1..Len(parts) |-> Strip(parts[i])]

\* needle in haystack, for two str values
Contains(haystack, needle) ==
    \E i \in 1..(Len(haystack) - Len(needle) + 1) :
        SubSeq(haystack, i, i + Len(needle) - 1) = needle

\* the literals "none", "all" and "MR" of the code
NoneStr == <<"n", "o", "n", "e">>
AllStr == <<"a", "l", "l">>
MRStr == <<"M", "R">>

\* A list compared with a str literal (aps != "", aps == ""): in Python a list
\* never equals a str, whatever the two hold.
ListEqualsStr(list, str) == FALSE

-----------------------------------------------------------------------------
\* dict helpers (insertion-ordered)

DictHas(d, k) == \E i \in 1..Len(d) : d[i][1] = k

DictGet(d, k) == d[CHOOSE i \in 1..Len(d) : d[i][1] = k][2]

\* d[k] = v: an existing key keeps its position
DictPut(d, k, v) ==
    IF DictHas(d, k)
    THEN [i \in 1..Len(d) |-> IF d[i][1] = k THEN <<k, v>> ELSE d[i]]
    ELSE Append(d, <<k, v>>)

-----------------------------------------------------------------------------
\* The deployment and the inputs of the run

\* marks a profile entry that has no "id" key
NoId == "NoId"

\* The organization's networks as getOrganizationNetworks returns them, each
\* with the RF profiles getNetworkWirelessRfProfiles returns for it.
Networks ==
    << [id |-> "N1", name |-> <<"A">>, wireless |-> TRUE,
        profiles |-> << [name |-> <<"p">>, id |-> "R1"] >>],
       [id |-> "N2", name |-> <<"b">>, wireless |-> TRUE,
        profiles |-> << >>],
       [id |-> "N3", name |-> <<"Z">>, wireless |-> FALSE,
        profiles |-> << >>] >>

\* rf_info = {n["name"]: {"id": n["id"]} for n in profiles}
RECURSIVE RfInfo(_)
RfInfo(profiles) ==
    IF profiles = <<>>
    THEN <<>>
    ELSE DictPut(RfInfo(SubSeq(profiles, 1, Len(profiles) - 1)),
                 profiles[Len(profiles)].name,
                 [id |-> profiles[Len(profiles)].id])

RECURSIVE getRFProfiles(_)
\* the baseline: {name.lower(): {"id": ..., "rf": rf_info}} of the wireless networks
getRFProfiles(networks) ==
    IF networks = <<>>
    THEN <<>>
    ELSE LET rest == getRFProfiles(SubSeq(networks, 1, Len(networks) - 1))
             network == networks[Len(networks)]
         IN IF ~network.wireless
            THEN rest
            ELSE DictPut(rest, Lower(network.name),
                         [id |-> network.id, rf |-> RfInfo(network.profiles)])

\* the template documents read from the directory, keyed by their "name"
TemplateFiles ==
    << [name |-> <<"p">>, bandSelectionType |-> "ap"],
       [name |-> <<"q">>, bandSelectionType |-> "ssid"] >>

RECURSIVE collectNewRFprofiles(_)
collectNewRFprofiles(files) ==
    IF files = <<>>
    THEN <<>>
    ELSE DictPut(collectNewRFprofiles(SubSeq(files, 1, Len(files) - 1)),
                 files[Len(files)].name, files[Len(files)])

\* the device listings getNetworkDevices may return for a network id: an
\* access point, an appliance and a device whose model identifier has "MR"
\* inside it but not in front; no device at all; an appliance only
NetworkDevices(netid) ==
    { << [serial |-> <<"1">>, model |-> <<"M", "R", "4">>],
         [serial |-> <<"9">>, model |-> <<"M", "X">>],
         [serial |-> <<"7">>, model |-> <<"X", "M", "R">>] >>,
      << >>,
      << [serial |-> <<"8">>, model |-> <<"M", "X">>] >> }

\* the id a successful createNetworkWirelessRfProfile returns
CreatedId(netid, profile) ==
    CASE netid = "N1" /\ profile = <<"p">> -> "N1-new-p"
      [] netid = "N1" /\ profile = <<"q">> -> "N1-new-q"
      [] netid = "N2" /\ profile = <<"p">> -> "N2-new-p"
      [] netid = "N2" /\ profile = <<"q">> -> "N2-new-q"
      [] OTHER -> "new"

\* The values of the three CSV columns.  Rows that name a wireless network
\* and templates only take every APs value; rows with an unknown network or
\* an unknown profile name take fewer combinations.
APsField ==
    { <<>>, <<"N", "o", "n", "e">>, AllStr, <<"1", ",", " ", "2">>,
      <<"n", "o", "n", "e", ",", "1">> }

\* one row of csv.DictReader
KnownRows ==
    [NetworkName : { <<"A">> },
     RFProfiles : { <<"p">>, <<"q">>, <<"p", ",", " ", "q">> },
     APs : APsField]
    \cup
    [NetworkName : { <<"B">> },
     RFProfiles : { <<"p">>, <<"p", ",", " ", "q">> },
     APs : APsField]

UnknownNetworkRows ==
    [NetworkName : { <<"Z">> },
     RFProfiles : { <<"p">>, <<"x", ",", "y">> },
     APs : { <<"1", ",", " ", "2">> }]

UnknownProfileRows ==
    [NetworkName : { <<"A">> },
     RFProfiles : { <<"q", ",", "x">>, <<"x", ",", "y">> },
     APs : { <<"1", ",", " ", "2">> }]

Rows == KnownRows \cup UnknownNetworkRows \cup UnknownProfileRows

Tables == UNION { [1..n -> Rows] : n \in 0..MaxRows }

-----------------------------------------------------------------------------
VARIABLES
    pc,            \* position of main
    current,       \* rf_profiles of main: the baseline
    new,           \* new_profiles of main: the templates
    assignments,   \* the rows of the assignment CSV
    row,           \* number of rows validateAssignments has processed
    good, bad_network, bad_profiles, bad_aps,
    updates,       \* the change-set (proposed_changes / changes)
    net, prof,     \* positions of the two loops of upload_profiles
    upc,           \* position inside the body of the profile loop
    aps, ap, rfid, \* locals of upload_profiles
    errors,        \* the failure list of upload_profiles
    calls          \* the calls the dashboard has received, in order

\* export_rfprofiles.py
VARIABLES
    export_pc,     \* position of main of the export script
    path_exists,   \* whether the directory the operator names exists
    fetched,       \* what getNetworkWirelessRfProfiles returned
    rf_list,       \* rf_profiles of writeData, whose documents it edits in place
    written,       \* number of profiles the loop of writeData has written
    directory      \* the files of the directory: name -> content

updateVars == <<pc, current, new, assignments, row, good, bad_network, bad_profiles,
                bad_aps, updates, net, prof, upc, aps, ap, rfid, errors, calls>>
exportVars == <<export_pc, path_exists, fetched, rf_list, written, directory>>

vars == <<updateVars, exportVars>>

validateVars == <<row, good, bad_network, bad_profiles, bad_aps, updates>>
uploadVars == <<net, prof, upc, aps, ap, rfid, errors, calls>>
inputVars == <<current, new, assignments>>

Init ==
    /\ pc = "validate"
    /\ current = getRFProfiles(Networks)
    /\ new = collectNewRFprofiles(TemplateFiles)
    /\ assignments \in Tables
    /\ row = 0
    /\ good = 0
    /\ bad_network = <<>>
    /\ bad_profiles = <<>>
    /\ bad_aps = <<>>
    /\ updates = <<>>
    /\ net = 0
    /\ prof = 0
    /\ upc = "idle"
    /\ aps = <<>>
    /\ ap = 0
    /\ rfid = NoId
    /\ errors = <<>>
    /\ calls = <<>>
    /\ export_pc = "idle"
    /\ path_exists = FALSE
    /\ fetched = <<>>
    /\ rf_list = <<>>
    /\ written = 0
    /\ directory = <<>>

-----------------------------------------------------------------------------
\* validateAssignments: the body of "for entry in assignments"

\* the row the loop is at
entry == assignments[row + 1]

rf_profiles(e) == SplitStrip(e.RFProfiles)
row_aps(e) == SplitStrip(e.APs)
target_network(e) == Lower(e.NetworkName)

\* "not target_network in current.keys()"
NetworkUnknown(cur, e) == ~DictHas(cur, target_network(e))

\* A validator that checks only the first profile name of a row.
UnknownProfiles_FirstOnly(templates, profiles) ==
    SelectSeq(SubSeq(profiles, 1, 1), LAMBDA p : ~DictHas(templates, p))

\* the profiles of the row that are no key of the templates, in row order
UnknownProfiles(templates, profiles) ==
    SelectSeq(profiles, LAMBDA p : ~DictHas(templates, p))

\* bad_profiles after the inner loop: the entry is appended once for every
\* profile name of the row that is no key of the templates
AppendBadProfiles(bad, templates, e) ==
    bad \o [i \in 1..Len(UnknownProfiles(templates, rf_profiles(e))) |-> e]

\* "if len(rf_profiles) > 1: if aps != "" and aps[0].lower() != "none""
ApsConflict(profiles, a) ==
    /\ Len(profiles) > 1
    /\ ~ListEqualsStr(a, <<>>)
    /\ Lower(a[1]) # NoneStr

\* A validator that tags an existing profile "update" but drops its id.
ProfileEntry_NoId(network_rf, profile, a) ==
    IF DictHas(network_rf, profile)
    THEN [aps |-> a, id |-> NoId, oper |-> "update"]
    ELSE [aps |-> a, id |-> NoId, oper |-> "add"]

\* the entry stored for one profile of an accepted row
ProfileEntry(network_rf, profile, a) ==
    IF DictHas(network_rf, profile)
    THEN [aps |-> a, id |-> DictGet(network_rf, profile).id, oper |-> "update"]
    ELSE [aps |-> a, id |-> NoId, oper |-> "add"]

RECURSIVE StageProfiles(_, _, _, _)
\* "for profile in rf_profiles": the rf dict after the first n profiles of the row
StageProfiles(network_rf, profiles, a, n) ==
    IF n = 0
    THEN <<>>
    ELSE DictPut(StageProfiles(network_rf, profiles, a, n - 1),
                 profiles[n], ProfileEntry(network_rf, profiles[n], a))

\* the change-set after an accepted row: the network's entry is set up anew
\* and the row's profiles are stored in it
StageRow(upd, cur, e) ==
    DictPut(upd, target_network(e),
            [id |-> DictGet(cur, target_network(e)).id,
             rf |-> StageProfiles(DictGet(cur, target_network(e)).rf,
                                  rf_profiles(e), row_aps(e), Len(rf_profiles(e)))])

InLoop == pc = "validate" /\ row < Len(assignments)

\* A loop body without the "continue" after bad_network.append(entry): the
\* row goes on to the profile check.
ValidateBadNetwork_NoContinue ==
    /\ InLoop
    /\ NetworkUnknown(current, entry)
    /\ bad_network' = Append(bad_network, entry)
    /\ bad_profiles' = AppendBadProfiles(bad_profiles, new, entry)
    /\ row' = row + 1
    /\ UNCHANGED <<pc, good, bad_aps, updates, inputVars, exportVars, uploadVars>>

ValidateBadNetwork ==
    /\ InLoop
    /\ NetworkUnknown(current, entry)
    /\ bad_network' = Append(bad_network, entry)
    /\ row' = row + 1
    /\ UNCHANGED <<pc, good, bad_profiles, bad_aps, updates, inputVars, exportVars, uploadVars>>

ValidateBadProfile ==
    /\ InLoop
    /\ ~NetworkUnknown(current, entry)
    /\ UnknownProfiles(new, rf_profiles(entry)) # <<>>
    /\ bad_profiles' = AppendBadProfiles(bad_profiles, new, entry)
    /\ row' = row + 1
    /\ UNCHANGED <<pc, good, bad_network, bad_aps, updates, inputVars, exportVars, uploadVars>>

ValidateBadAps ==
    /\ InLoop
    /\ ~NetworkUnknown(current, entry)
    /\ UnknownProfiles(new, rf_profiles(entry)) = <<>>
    /\ ApsConflict(rf_profiles(entry), row_aps(entry))
    /\ bad_aps' = Append(bad_aps, entry)
    /\ row' = row + 1
    /\ UNCHANGED <<pc, good, bad_network, bad_profiles, updates, inputVars, exportVars, uploadVars>>

ValidateAccept ==
    /\ InLoop
    /\ ~NetworkUnknown(current, entry)
    /\ UnknownProfiles(new, rf_profiles(entry)) = <<>>
    /\ ~ApsConflict(rf_profiles(entry), row_aps(entry))
    /\ updates' = StageRow(updates, current, entry)
    /\ good' = good + 1
    /\ row' = row + 1
    /\ UNCHANGED <<pc, bad_network, bad_profiles, bad_aps, inputVars, exportVars, uploadVars>>

\* A main without the confirmation gate: validation returns and the upload
\* starts.
ValidateClean_NoGate ==
    /\ pc = "validate" /\ row = Len(assignments)
    /\ good = Len(assignments)
    /\ pc' = "upload"
    /\ IF updates = <<>>
       THEN net' = 0 /\ prof' = 0 /\ upc' = "end"
       ELSE net' = 1 /\ prof' = 1 /\ upc' = "mutate"
    /\ UNCHANGED <<validateVars, inputVars, exportVars, aps, ap, rfid, errors, calls>>

\* after the loop: "if good == len(assignments)" ... "return updates"
ValidateClean ==
    /\ pc = "validate" /\ row = Len(assignments)
    /\ good = Len(assignments)
    /\ pc' = "confirm"
    /\ UNCHANGED <<validateVars, inputVars, exportVars, uploadVars>>

\* issues found, the table shown or not, and some row passed
ValidateIssues ==
    /\ pc = "validate" /\ row = Len(assignments)
    /\ good # Len(assignments)
    /\ good # 0
    /\ pc' = "confirm"
    /\ UNCHANGED <<validateVars, inputVars, exportVars, uploadVars>>

\* issues found and no row passed: sys.exit(1)
ValidateExit ==
    /\ pc = "validate" /\ row = Len(assignments)
    /\ good # Len(assignments)
    /\ good = 0
    /\ pc' = "exit"
    /\ UNCHANGED <<validateVars, inputVars, exportVars, uploadVars>>

-----------------------------------------------------------------------------
\* main: the confirmation gate

\* the first position of the loops of upload_profiles
StartUpload ==
    IF updates = <<>>
    THEN net' = 0 /\ prof' = 0 /\ upc' = "end"
    ELSE net' = 1 /\ prof' = 1 /\ upc' = "mutate"

ConfirmYes ==
    /\ pc = "confirm"
    /\ pc' = "upload"
    /\ StartUpload
    /\ UNCHANGED <<validateVars, inputVars, exportVars, aps, ap, rfid, errors, calls>>

\* "if not Confirm.ask(...): sys.exit(1)"
ConfirmNo ==
    /\ pc = "confirm"
    /\ pc' = "exit"
    /\ UNCHANGED <<validateVars, inputVars, exportVars, uploadVars>>

-----------------------------------------------------------------------------
\* upload_profiles

network == updates[net][1]
netid == updates[net][2].id
rf == updates[net][2].rf
profile == rf[prof][1]

\* a call as the dashboard receives it, with the loop iteration that made it
Call(op, serial, rfProfileId, ok) ==
    [op |-> op, network |-> network, networkId |-> netid, profile |-> profile,
     serial |-> serial, rfProfileId |-> rfProfileId, ok |-> ok, response |-> <<>>]

\* a call with what the dashboard answered: the id of a created profile (as
\* a one-element sequence), or the listed devices
Answered(call, response) == [call EXCEPT !.response = response]

\* the record the two "except APIError" handlers append
Failure == [network |-> network, profile |-> profile, error |-> "APIError"]

\* A "break" in place of the "continue": the rest of the network's profiles
\* is skipped.
NextProfile_Break ==
    IF net < Len(updates)
    THEN net' = net + 1 /\ prof' = 1 /\ upc' = "mutate"
    ELSE net' = net /\ prof' = prof /\ upc' = "end"

\* "continue", or the end of the body: the next profile, the next network,
\* or the end of both loops
NextProfile ==
    IF prof < Len(rf)
    THEN net' = net /\ prof' = prof + 1 /\ upc' = "mutate"
    ELSE IF net < Len(updates)
         THEN net' = net + 1 /\ prof' = 1 /\ upc' = "mutate"
         ELSE net' = net /\ prof' = prof /\ upc' = "end"

\* "if aps == "" or aps[0].lower() == "none""
NoApsToAssign(a) == ListEqualsStr(a, <<>>) \/ Lower(a[1]) = NoneStr

\* where the body goes once the profile is created or updated
AfterMutation(a) ==
    IF NoApsToAssign(a)
    THEN NextProfile /\ ap' = ap
    ELSE IF Lower(a[1]) = AllStr
         THEN net' = net /\ prof' = prof /\ upc' = "list" /\ ap' = ap
         ELSE net' = net /\ prof' = prof /\ upc' = "assign" /\ ap' = 1

\* A store that also retags the entry now that the profile exists.
StoreId_AlsoTags(upd, n, p, id) ==
    [upd EXCEPT ![n][2].rf[p][2].id = id, ![n][2].rf[p][2].oper = "update"]

\* rf[profile]["id"] = response["id"]
StoreId(upd, n, p, id) ==
    [upd EXCEPT ![n][2].rf[p][2].id = id]

AtMutate(oper) ==
    /\ pc = "upload" /\ upc = "mutate"
    /\ rf[prof][2].oper = oper

\* A body that does not read the new id back: rfid keeps what the previous
\* profile left in it.
CreateOk_StaleId ==
    /\ AtMutate("add")
    /\ calls' = Append(calls, Answered(Call("createNetworkWirelessRfProfile", <<>>, NoId, TRUE),
                                       <<CreatedId(netid, profile)>>))
    /\ updates' = StoreId(updates, net, prof, CreatedId(netid, profile))
    /\ rfid' = rfid
    /\ aps' = rf[prof][2].aps
    /\ AfterMutation(rf[prof][2].aps)
    /\ UNCHANGED <<pc, row, good, bad_network, bad_profiles, bad_aps, inputVars, exportVars, errors>>

CreateOk ==
    /\ AtMutate("add")
    /\ calls' = Append(calls, Answered(Call("createNetworkWirelessRfProfile", <<>>, NoId, TRUE),
                                       <<CreatedId(netid, profile)>>))
    /\ updates' = StoreId(updates, net, prof, CreatedId(netid, profile))
    /\ rfid' = CreatedId(netid, profile)
    /\ aps' = rf[prof][2].aps
    /\ AfterMutation(rf[prof][2].aps)
    /\ UNCHANGED <<pc, row, good, bad_network, bad_profiles, bad_aps, inputVars, exportVars, errors>>

\* An "except APIError" handler without its "continue": the failure is
\* recorded and the body goes on to assign the APs.
CreateFail_NoContinue ==
    /\ AtMutate("add")
    /\ calls' = Append(calls, Call("createNetworkWirelessRfProfile", <<>>, NoId, FALSE))
    /\ errors' = Append(errors, Failure)
    /\ aps' = rf[prof][2].aps
    /\ AfterMutation(rf[prof][2].aps)
    /\ UNCHANGED <<pc, validateVars, inputVars, exportVars, rfid>>

CreateFail ==
    /\ AtMutate("add")
    /\ calls' = Append(calls, Call("createNetworkWirelessRfProfile", <<>>, NoId, FALSE))
    /\ errors' = Append(errors, Failure)
    /\ aps' = rf[prof][2].aps
    /\ NextProfile
    /\ UNCHANGED <<pc, validateVars, inputVars, exportVars, ap, rfid>>

UpdateOk ==
    /\ AtMutate("update")
    /\ calls' = Append(calls, Call("updateNetworkWirelessRfProfile", <<>>, rf[prof][2].id, TRUE))
    /\ rfid' = rf[prof][2].id
    /\ aps' = rf[prof][2].aps
    /\ AfterMutation(rf[prof][2].aps)
    /\ UNCHANGED <<pc, validateVars, inputVars, exportVars, errors>>

UpdateFail ==
    /\ AtMutate("update")
    /\ calls' = Append(calls, Call("updateNetworkWirelessRfProfile", <<>>, rf[prof][2].id, FALSE))
    /\ errors' = Append(errors, Failure)
    /\ aps' = rf[prof][2].aps
    /\ NextProfile
    /\ UNCHANGED <<pc, validateVars, inputVars, exportVars, ap, rfid>>

\* [d["serial"] for d in response if "MR" in d["model"]]
ApSerials(devices) ==
    LET found == SelectSeq(devices, LAMBDA d : Contains(d.model, MRStr))
    IN [i \in 1..Len(found) |-> found[i].serial]

\* A resolution that treats "no AP found" as a failure of the profile.
ListDevicesOk_EmptyIsError ==
    /\ pc = "upload" /\ upc = "list"
    /\ \E devices \in NetworkDevices(netid) :
          /\ calls' = Append(calls, Answered(Call("getNetworkDevices", <<>>, NoId, TRUE), devices))
          /\ aps' = ApSerials(devices)
          /\ IF ApSerials(devices) = <<>>
             THEN NextProfile /\ ap' = ap /\ errors' = Append(errors, Failure)
             ELSE net' = net /\ prof' = prof /\ upc' = "assign" /\ ap' = 1 /\ errors' = errors
    /\ UNCHANGED <<pc, validateVars, inputVars, exportVars, rfid>>

ListDevicesOk ==
    /\ pc = "upload" /\ upc = "list"
    /\ \E devices \in NetworkDevices(netid) :
          /\ calls' = Append(calls, Answered(Call("getNetworkDevices", <<>>, NoId, TRUE), devices))
          /\ aps' = ApSerials(devices)
          /\ IF ApSerials(devices) = <<>>
             THEN NextProfile /\ ap' = ap
             ELSE net' = net /\ prof' = prof /\ upc' = "assign" /\ ap' = 1
    /\ UNCHANGED <<pc, validateVars, inputVars, exportVars, rfid, errors>>

ListDevicesFail ==
    /\ pc = "upload" /\ upc = "list"
    /\ calls' = Append(calls, Call("getNetworkDevices", <<>>, NoId, FALSE))
    /\ errors' = Append(errors, Failure)
    /\ NextProfile
    /\ UNCHANGED <<pc, validateVars, inputVars, exportVars, aps, ap, rfid>>

\* "for ap in aps": one updateDeviceWirelessRadioSettings call
AssignOk ==
    /\ pc = "upload" /\ upc = "assign"
    /\ calls' = Append(calls, Call("updateDeviceWirelessRadioSettings", aps[ap], rfid, TRUE))
    /\ IF ap < Len(aps)
       THEN net' = net /\ prof' = prof /\ upc' = upc /\ ap' = ap + 1
       ELSE NextProfile /\ ap' = ap
    /\ UNCHANGED <<pc, validateVars, inputVars, exportVars, aps, rfid, errors>>

\* A handler inside the "for ap in aps" loop: the failure is recorded and the
\* loop goes on with the next AP.
AssignFail_KeepGoing ==
    /\ pc = "upload" /\ upc = "assign"
    /\ calls' = Append(calls, Call("updateDeviceWirelessRadioSettings", aps[ap], rfid, FALSE))
    /\ errors' = Append(errors, Failure)
    /\ IF ap < Len(aps)
       THEN net' = net /\ prof' = prof /\ upc' = upc /\ ap' = ap + 1
       ELSE NextProfile /\ ap' = ap
    /\ UNCHANGED <<pc, validateVars, inputVars, exportVars, aps, rfid>>

AssignFail ==
    /\ pc = "upload" /\ upc = "assign"
    /\ calls' = Append(calls, Call("updateDeviceWirelessRadioSettings", aps[ap], rfid, FALSE))
    /\ errors' = Append(errors, Failure)
    /\ NextProfile
    /\ UNCHANGED <<pc, validateVars, inputVars, exportVars, aps, ap, rfid>>

\* both loops are over: the report, and the return to main
UploadFinish ==
    /\ pc = "upload" /\ upc = "end"
    /\ pc' = "done"
    /\ UNCHANGED <<validateVars, inputVars, exportVars, uploadVars>>

-----------------------------------------------------------------------------
Next ==
    \/ ValidateBadNetwork
    \/ ValidateBadProfile
    \/ ValidateBadAps
    \/ ValidateAccept
    \/ ValidateClean
    \/ ValidateIssues
    \/ ValidateExit
    \/ ConfirmYes
    \/ ConfirmNo
    \/ CreateOk
    \/ CreateFail
    \/ UpdateOk
    \/ UpdateFail
    \/ ListDevicesOk
    \/ ListDevicesFail
    \/ AssignOk
    \/ AssignFail
    \/ UploadFinish

Spec == Init /\ [][Next]_vars

-----------------------------------------------------------------------------
\* Vocabulary of the properties

Elems(seq) == { seq[i] : i \in 1..Len(seq) }

KnownNetwork(e) == DictHas(current, Lower(e.NetworkName))
ProfileNames(e) == SplitStrip(e.RFProfiles)
AllProfilesKnown(e) ==
    LET names == ProfileNames(e)
    IN \A i \in 1..Len(names) : DictHas(new, names[i])
ApList(e) == SplitStrip(e.APs)

\* an AP list that stands for "no AP": the empty field or the single sentinel
NoneOrEmpty(a) == a = << <<>> >> \/ (Len(a) = 1 /\ Lower(a[1]) = NoneStr)

\* the rows the validator lets through
RowAccepted(e) ==
    /\ KnownNetwork(e)
    /\ AllProfilesKnown(e)
    /\ ~ApsConflict(ProfileNames(e), ApList(e))

ChangeSetHas(n, p) == DictHas(updates, n) /\ DictHas(DictGet(updates, n).rf, p)
ChangeSetEntry(n, p) == DictGet(DictGet(updates, n).rf, p)

\* the (network, profile) pairs of the change-set
ChangeSetPairs ==
    UNION { { <<updates[i][1], updates[i][2].rf[j][1]>> : j \in 1..Len(updates[i][2].rf) } :
            i \in 1..Len(updates) }

MutationOps == { "createNetworkWirelessRfProfile", "updateNetworkWirelessRfProfile" }
RadioOp == "updateDeviceWirelessRadioSettings"

\* the calls made while processing profile p of network n
CallsFor(n, p) == { i \in 1..Len(calls) : calls[i].network = n /\ calls[i].profile = p }

ErrorsFor(n, p) == { i \in 1..Len(errors) : errors[i].network = n /\ errors[i].profile = p }

-----------------------------------------------------------------------------
\* C1: the change-set is additive across accepted rows: every network has one
\* entry, and every profile of every accepted row processed so far is in the
\* entry of the row's network (with the row's AP list when no other accepted
\* row of that network names the profile); a later accepted row removes nothing.
C1_Additive ==
    /\ \A i, j \in 1..Len(updates) : updates[i][1] = updates[j][1] => i = j
    /\ \A k \in 1..row :
         LET e == assignments[k]
             n == Lower(e.NetworkName)
         IN RowAccepted(e) =>
              \A i \in 1..Len(ProfileNames(e)) :
                 /\ ChangeSetHas(n, ProfileNames(e)[i])
                 /\ (\A m \in (1..row) \ {k} :
                        ~(/\ RowAccepted(assignments[m])
                          /\ Lower(assignments[m].NetworkName) = n
                          /\ ProfileNames(e)[i] \in Elems(ProfileNames(assignments[m]))))
                    => ChangeSetEntry(n, ProfileNames(e)[i]).aps = ApList(e)

\* C2: no updateDeviceWirelessRadioSettings call is made for a change-set
\* profile whose AP list came from an APs field that is empty or `none`.
C2_NoAssignmentForNone ==
    \A i \in 1..Len(calls) :
        calls[i].op = RadioOp =>
            ~NoneOrEmpty(ChangeSetEntry(calls[i].network, calls[i].profile).aps)

\* C3: a processed row with a known network, known profiles only, more than
\* one profile and an empty or `none` APs field is in no rejection list.
C3_MultiProfileNoneAccepted ==
    \A k \in 1..row :
        LET e == assignments[k]
        IN (/\ KnownNetwork(e)
            /\ AllProfilesKnown(e)
            /\ Len(ProfileNames(e)) > 1
            /\ NoneOrEmpty(ApList(e)))
           => e \notin Elems(bad_network) \cup Elems(bad_profiles) \cup Elems(bad_aps)

\* C4: a processed row with a known network, known profiles only, more than
\* one profile and an AP list that is neither empty nor the single sentinel
\* `none` is recorded in bad_aps (MultiProfileApConflict).
C4_MultiProfileConflictRejected ==
    \A k \in 1..row :
        LET e == assignments[k]
        IN (/\ KnownNetwork(e)
            /\ AllProfilesKnown(e)
            /\ Len(ProfileNames(e)) > 1
            /\ ~NoneOrEmpty(ApList(e)))
           => e \in Elems(bad_aps)

\* C5: when validation has processed the whole table and accepted no row, the
\* run is still inside validation or has exited: it is never at the
\* confirmation gate nor in upload_profiles.
C5_ZeroAcceptedIsFatal ==
    (row = Len(assignments) /\ good = 0) => pc \in {"validate", "exit"}

\* the AP serials the profile loop works through for profile p of network n
Targets(n, p) ==
    IF Lower(ChangeSetEntry(n, p).aps[1]) = AllStr
    THEN ApSerials(calls[CHOOSE i \in CallsFor(n, p) :
                            calls[i].op = "getNetworkDevices" /\ calls[i].ok].response)
    ELSE ChangeSetEntry(n, p).aps

FailedMutation(i) == calls[i].op \in MutationOps /\ ~calls[i].ok

\* every pair of the change-set has had its create or update call, once
EveryPairAttempted ==
    \A pair \in ChangeSetPairs :
        Cardinality({ i \in CallsFor(pair[1], pair[2]) : calls[i].op \in MutationOps }) = 1

\* C6: when the create or update call of a profile fails, no other call is
\* made for that profile (no device listing, no AP assignment); at the end of
\* upload_profiles every profile of every network of the change-set has had
\* its create or update call; and when that failed call is the only failed
\* call of the run, the failure list is exactly one record, naming its network
\* and profile.
C6_FailureIsolation ==
    /\ \A i \in 1..Len(calls) :
         FailedMutation(i) => CallsFor(calls[i].network, calls[i].profile) = {i}
    /\ pc = "done" => EveryPairAttempted
    /\ pc = "done" =>
         \A i \in 1..Len(calls) :
            (FailedMutation(i) /\ \A j \in (1..Len(calls)) \ {i} : calls[j].ok)
            => errors = << [network |-> calls[i].network,
                            profile |-> calls[i].profile,
                            error |-> "APIError"] >>

\* a finished run over two networks, the first with two profiles, in which
\* the first profile's call failed and nothing else did
C6_Witness ==
    /\ pc = "done"
    /\ Len(updates) = 2
    /\ Len(updates[1][2].rf) = 2
    /\ Len(calls) >= 3
    /\ FailedMutation(1)
    /\ \A j \in 2..Len(calls) : calls[j].ok
    /\ Len(errors) = 1

FailedAssignment(i) == calls[i].op = RadioOp /\ ~calls[i].ok

\* the assignment calls made for the pair of call i before call i
AssignedBefore(i) ==
    { j \in CallsFor(calls[i].network, calls[i].profile) : j < i /\ calls[j].op = RadioOp }

\* C7: when the radio-settings update of the k-th AP of a profile fails, the
\* k-1 earlier assignments of that profile were made and succeeded, the
\* failed call is for the k-th target, no later call of the run is made for
\* that profile (neither for the remaining APs nor to undo the earlier ones),
\* exactly one failure record names the profile, and at the end every profile
\* of the change-set has had its create or update call.
C7_AssignmentFailure ==
    /\ \A i \in 1..Len(calls) :
         FailedAssignment(i) =>
            LET n == calls[i].network
                p == calls[i].profile
                k == Cardinality(AssignedBefore(i)) + 1
            IN /\ \A j \in AssignedBefore(i) : calls[j].ok
               /\ k <= Len(Targets(n, p))
               /\ calls[i].serial = Targets(n, p)[k]
               /\ \A j \in CallsFor(n, p) : j <= i
               /\ Cardinality(ErrorsFor(n, p)) = 1
    /\ \A i \in 1..Len(calls) :
         calls[i].op \in MutationOps \cup {RadioOp, "getNetworkDevices"}
    /\ pc = "done" => EveryPairAttempted

\* a finished run in which the second AP of a profile failed after the first
\* was assigned, and a profile of another network was processed afterwards
C7_Witness ==
    /\ pc = "done"
    /\ \E i \in 1..Len(calls) :
          /\ FailedAssignment(i)
          /\ Cardinality(AssignedBefore(i)) = 1
          /\ Len(Targets(calls[i].network, calls[i].profile)) = 2
          /\ \E j \in (i + 1)..Len(calls) : calls[j].network # calls[i].network

\* C8: a change-set entry is tagged `update` exactly when its profile name is
\* in the baseline of its network, and then carries the baseline's id; it is
\* tagged `add` otherwise, and carries no id when validation returns; and the
\* profiles of the row accepted last are all in the change-set.
C8_UpdateClassification ==
    /\ \A i \in 1..Len(updates) : \A j \in 1..Len(updates[i][2].rf) :
         LET base == DictGet(current, updates[i][1]).rf
             name == updates[i][2].rf[j][1]
             e == updates[i][2].rf[j][2]
         IN IF DictHas(base, name)
            THEN e.oper = "update" /\ e.id = DictGet(base, name).id
            ELSE e.oper = "add" /\ (pc \in {"validate", "confirm"} => e.id = NoId)
    /\ (row > 0 /\ RowAccepted(assignments[row])) =>
         LET names == ProfileNames(assignments[row])
             n == Lower(assignments[row].NetworkName)
         IN \A i \in 1..Len(names) : ChangeSetHas(n, names[i])

\* validation has returned a change-set with an `update` and an `add` entry
C8_Witness ==
    /\ pc = "confirm"
    /\ \E i \in 1..Len(updates) :
          /\ \E j \in 1..Len(updates[i][2].rf) :
                updates[i][2].rf[j][2].oper = "update" /\ updates[i][2].rf[j][2].id = "R1"
          /\ \E j \in 1..Len(updates[i][2].rf) : updates[i][2].rf[j][2].oper = "add"

C9_Step ==
    /\ (InLoop /\ ~KnownNetwork(entry)) =>
          /\ bad_network' = Append(bad_network, entry)
          /\ UNCHANGED <<updates, good, bad_profiles, bad_aps>>
    /\ bad_network' # bad_network => (InLoop /\ ~KnownNetwork(entry))

\* C9: processing a row whose lower-cased network name is no key of the
\* baseline appends that row once to bad_network and leaves the change-set,
\* the accepted count and the other two rejection lists as they were; no
\* other step changes bad_network.
C9_NetworkNameMismatch == [][C9_Step]_vars

\* a row with an unknown network and unknown profile names has been rejected
C9_Witness ==
    /\ row = Len(assignments)
    /\ \E i \in 1..Len(bad_network) :
          /\ ~KnownNetwork(bad_network[i])
          /\ ~AllProfilesKnown(bad_network[i])
    /\ bad_profiles = <<>>

C10_Step ==
    (InLoop /\ KnownNetwork(entry) /\ ~AllProfilesKnown(entry)) =>
        /\ \E n \in 1..Len(ProfileNames(entry)) :
              bad_profiles' = bad_profiles \o [i \in 1..n |-> entry]
        /\ UNCHANGED <<updates, good, bad_network, bad_aps>>

\* C10: processing a row with a known network and at least one profile name
\* that is no key of the templates records the row in bad_profiles and leaves
\* the change-set, the accepted count and the other rejection lists as they
\* were: no profile of the row, matching or not, is staged.
C10_ProfileNameMismatch == [][C10_Step]_vars

\* a row naming the template q and the unknown x has been rejected, and q is
\* not in the change-set
C10_Witness ==
    /\ row = Len(assignments)
    /\ \E i \in 1..Len(bad_profiles) :
          /\ KnownNetwork(bad_profiles[i])
          /\ \E j \in 1..Len(ProfileNames(bad_profiles[i])) :
                DictHas(new, ProfileNames(bad_profiles[i])[j])
    /\ \A pair \in ChangeSetPairs : pair[2] # <<"q">>
    /\ good > 0

ListOp == "getNetworkDevices"

\* a listing in which no device's model identifier has "MR" in it
NoApListed(devices) == \A d \in 1..Len(devices) : ~Contains(devices[d].model, MRStr)

UploadStep ==
    \/ CreateOk \/ CreateFail \/ UpdateOk \/ UpdateFail
    \/ ListDevicesOk \/ ListDevicesFail
    \/ AssignOk \/ AssignFail
    \/ UploadFinish

\* C12: whatever calls fail, upload_profiles is never stuck before its end
\* (inside it a step is always possible), no (network, profile) pair has more
\* than one create/update call or more than one failure record, every
\* failure record names a pair of the change-set, and when upload_profiles
\* has returned every pair has had its create/update call exactly once.
C12_UploadCompletes ==
    /\ pc = "upload" => ENABLED UploadStep
    /\ LET pairs == ChangeSetPairs
       IN /\ \A pair \in pairs :
                /\ Cardinality({ i \in CallsFor(pair[1], pair[2]) : calls[i].op \in MutationOps }) <= 1
                /\ Cardinality(ErrorsFor(pair[1], pair[2])) <= 1
          /\ \A i \in 1..Len(errors) : <<errors[i].network, errors[i].profile>> \in pairs
    /\ pc = "done" => EveryPairAttempted

\* a finished run with a failed create/update call and, for another profile,
\* a failed device listing or assignment
C12_Witness ==
    /\ pc = "done"
    /\ Len(errors) = 2
    /\ \E i \in 1..Len(calls) : FailedMutation(i)
    /\ \E i \in 1..Len(calls) : ~calls[i].ok /\ calls[i].op \in {ListOp, RadioOp}

C13_Step ==
    /\ calls' # calls => pc = "upload"
    /\ (pc' = "upload" /\ pc # "upload") => (pc = "confirm" /\ calls = <<>>)
    /\ (pc = "confirm" /\ pc' # "confirm") => pc' \in {"upload", "exit"}
    /\ pc = "exit" => (calls = <<>> /\ pc' = "exit" /\ calls' = <<>>)

\* C13: a remote call of the apply phase is made only inside upload_profiles;
\* upload_profiles is entered only by the step that leaves the confirmation
\* gate with a yes, before which no call has been made; the only other way
\* out of the gate is the exit, and a run that has exited has made no call
\* and makes none.
C13_ConfirmationGate == [][C13_Step]_vars

\* the operator declined a non-empty change-set: the run has exited and no
\* call was made
C13_Witness ==
    /\ pc = "exit"
    /\ good > 0
    /\ updates # <<>>
    /\ calls = <<>>

\* the successful create/update calls of the pair of call i made before call i
MutatedBefore(i) ==
    { j \in CallsFor(calls[i].network, calls[i].profile) :
         j < i /\ calls[j].op \in MutationOps /\ calls[j].ok }

\* C14: every radio-settings update call comes after a successful create or
\* update call of the same profile of the same network, and binds that
\* profile's id: the id the create call returned for an `add` entry, the id
\* the baseline records for the profile in that network for an `update`
\* entry; never a missing id.
C14_AssignmentBindsProfileId ==
    \A i \in 1..Len(calls) :
        calls[i].op = RadioOp =>
            /\ MutatedBefore(i) # {}
            /\ calls[i].rfProfileId # NoId
            /\ \A j \in MutatedBefore(i) :
                  IF calls[j].op = "createNetworkWirelessRfProfile"
                  THEN /\ ChangeSetEntry(calls[i].network, calls[i].profile).oper = "add"
                       /\ calls[i].rfProfileId = calls[j].response[1]
                  ELSE /\ ChangeSetEntry(calls[i].network, calls[i].profile).oper = "update"
                       /\ calls[i].rfProfileId =
                             DictGet(DictGet(current, calls[i].network).rf, calls[i].profile).id

\* a finished run that assigned a created profile after it had assigned an
\* updated one
C14_Witness ==
    /\ pc = "done"
    /\ \E i, j \in 1..Len(calls) :
          /\ i < j
          /\ calls[i].op = RadioOp /\ calls[i].rfProfileId = "R1"
          /\ calls[j].op = RadioOp /\ calls[j].ok
          /\ ChangeSetEntry(calls[j].network, calls[j].profile).oper = "add"

\* the position of key k in dict d
DictIndex(d, k) == CHOOSE i \in 1..Len(d) : d[i][1] = k

\* the accepted rows processed so far that name network n and profile p
RowsNaming(n, p) ==
    { k \in 1..row :
         /\ RowAccepted(assignments[k])
         /\ Lower(assignments[k].NetworkName) = n
         /\ p \in Elems(ProfileNames(assignments[k])) }

\* the first accepted row that names profile p for network n, and the
\* place of p in that row
FirstRow(n, p) == CHOOSE k \in RowsNaming(n, p) : \A m \in RowsNaming(n, p) : k <= m
PlaceInRow(k, p) ==
    CHOOSE i \in 1..Len(ProfileNames(assignments[k])) :
        /\ ProfileNames(assignments[k])[i] = p
        /\ \A j \in 1..(i - 1) : ProfileNames(assignments[k])[j] # p

\* profile p of network n was introduced before profile q of network n
IntroducedBefore(n, p, q) ==
    \/ FirstRow(n, p) < FirstRow(n, q)
    \/ FirstRow(n, p) = FirstRow(n, q) /\ PlaceInRow(FirstRow(n, p), p) <= PlaceInRow(FirstRow(n, q), q)

\* C15: the calls are made network by network in change-set order; within a
\* network the profiles are processed in the order in which the accepted rows
\* first introduced them; the calls of one profile are not interleaved with
\* those of another; and the assignments of a profile follow its target list.
C15_CallOrder ==
    /\ \A i, j \in 1..Len(calls) :
          i < j => DictIndex(updates, calls[i].network) <= DictIndex(updates, calls[j].network)
    /\ \A i, j \in 1..Len(calls) :
          (i < j /\ calls[i].network = calls[j].network /\ calls[i].profile # calls[j].profile)
          => IntroducedBefore(calls[i].network, calls[i].profile, calls[j].profile)
    /\ \A i, j, k \in 1..Len(calls) :
          (i < j /\ j < k /\ calls[i].network = calls[k].network /\ calls[i].profile = calls[k].profile)
          => (calls[j].network = calls[i].network /\ calls[j].profile = calls[i].profile)
    /\ \A i \in 1..Len(calls) :
          calls[i].op = RadioOp =>
             calls[i].serial =
                Targets(calls[i].network, calls[i].profile)[Cardinality(AssignedBefore(i)) + 1]

\* the step appended a successful create call for profile p of network n
\* that returned id
CreatedNow(n, p, id) ==
    /\ Len(calls') = Len(calls) + 1
    /\ calls'[Len(calls')].op = "createNetworkWirelessRfProfile"
    /\ calls'[Len(calls')].ok
    /\ calls'[Len(calls')].network = n
    /\ calls'[Len(calls')].profile = p
    /\ calls'[Len(calls')].response = <<id>>

\* the change-set after the step is the change-set before it, but for the id
\* of `add` entries whose create call succeeded in the step
OnlyIdsStored ==
    /\ Len(updates') = Len(updates)
    /\ \A i \in 1..Len(updates) :
          /\ updates'[i][1] = updates[i][1]
          /\ updates'[i][2].id = updates[i][2].id
          /\ Len(updates'[i][2].rf) = Len(updates[i][2].rf)
          /\ \A j \in 1..Len(updates[i][2].rf) :
                LET old == updates[i][2].rf[j]
                    now == updates'[i][2].rf[j]
                IN /\ now[1] = old[1]
                   /\ now[2].aps = old[2].aps
                   /\ now[2].oper = old[2].oper
                   /\ now[2].id # old[2].id =>
                         /\ old[2].oper = "add"
                         /\ old[2].id = NoId
                         /\ CreatedNow(updates[i][1], old[1], now[2].id)

C16_Step ==
    /\ current' = current
    /\ new' = new
    /\ pc \in {"confirm", "upload"} => OnlyIdsStored

\* C16: no step of the run changes the baseline or the templates, and once
\* validation has returned, a step changes the change-set only by storing,
\* in an `add` entry that had no id, the id its create call has just
\* returned: network keys and ids, profile keys, AP lists and tags stay as
\* validation left them.
C16_Frame == [][C16_Step]_vars

\* a finished run in which a created profile got its id, an `all` entry was
\* resolved to devices and still says `all`, and a failed create left its
\* entry without id
C16_Witness ==
    /\ pc = "done"
    /\ \E i \in 1..Len(calls) :
          /\ calls[i].op = ListOp /\ calls[i].ok /\ ~NoApListed(calls[i].response)
          /\ ChangeSetEntry(calls[i].network, calls[i].profile).oper = "add"
          /\ ChangeSetEntry(calls[i].network, calls[i].profile).id # NoId
          /\ Lower(ChangeSetEntry(calls[i].network, calls[i].profile).aps[1]) = AllStr
    /\ \E i \in 1..Len(calls) :
          /\ FailedMutation(i)
          /\ ChangeSetEntry(calls[i].network, calls[i].profile).id = NoId

\* the model identifier begins with the wireless-AP prefix
BeginsWithMR(model) == Len(model) >= Len(MRStr) /\ SubSeq(model, 1, Len(MRStr)) = MRStr

\* the serials, in listing order, of the listed devices whose model begins
\* with the wireless-AP prefix
WirelessSerials(devices) ==
    LET found == SelectSeq(devices, LAMBDA d : BeginsWithMR(d.model))
    IN [i \in 1..Len(found) |-> found[i].serial]

\* the indices, in increasing order, of the calls in S
RECURSIVE InOrder(_)
InOrder(S) ==
    IF S = {} THEN <<>>
    ELSE LET first == CHOOSE i \in S : \A j \in S : i <= j
         IN <<first>> \o InOrder(S \ {first})

\* the serials of the radio-settings calls made for profile p of network n,
\* in call order
RadioSerials(n, p) ==
    LET made == InOrder({ i \in CallsFor(n, p) : calls[i].op = RadioOp })
    IN [k \in 1..Len(made) |-> calls[made[k]].serial]

\* C17: for an `all` entry whose create or update call and device listing
\* succeeded, the radio-settings calls go, in listing order, to the listed
\* devices whose model begins with MR and to no other device; when the run
\* is over and none of these calls failed, every such device has had its
\* call.
C17_AllMeansModelPrefix ==
    \A i \in 1..Len(calls) :
        (/\ calls[i].op = ListOp /\ calls[i].ok
         /\ Lower(ChangeSetEntry(calls[i].network, calls[i].profile).aps[1]) = AllStr)
        => LET made == RadioSerials(calls[i].network, calls[i].profile)
               due == WirelessSerials(calls[i].response)
           IN /\ Len(made) <= Len(due)
              /\ made = SubSeq(due, 1, Len(made))
              /\ (pc = "done" /\ ErrorsFor(calls[i].network, calls[i].profile) = {})
                    => made = due

-----------------------------------------------------------------------------
\* export_rfprofiles.py: getRFProfiles and writeData.  A profile document is
\* a dict, a sequence of <<key, value>> pairs in the order the dashboard
\* sent them.

MaxProfiles == 2

\* the names of the rf_list of the exported network
ExportNames == { <<"P", " ", "1">>, <<"p", "_", "1">>, <<"Q">> }

\* the documents getNetworkWirelessRfProfiles may return: each carries id
\* and networkId, in front of or behind the settings
ExportDocuments ==
    UNION { { << <<"id", "R1">>, <<"networkId", "N1">>, <<"name", n>>,
                 <<"bandSelectionType", b>> >>,
              << <<"name", n>>, <<"bandSelectionType", b>>,
                 <<"networkId", "N1">>, <<"id", "R2">> >> }
            : n \in ExportNames, b \in {"ap", "ssid"} }

ExportResponses ==
    UNION { [1..k -> ExportDocuments] : k \in 0..MaxProfiles }

\* A del that leaves the document as it is.
Del_Nothing(doc, key) == doc

\* del profile[key] (the key is present)
Del(doc, key) == SelectSeq(doc, LAMBDA pair : pair[1] # key)

\* "_".join(name.lower().split(" ")): the pieces between the spaces, joined
\* again with an underscore in the place of every space
FileName(name) ==
    LET lowered == Lower(name)
    IN [i \in 1..Len(lowered) |-> IF lowered[i] = " " THEN "_" ELSE lowered[i]]

\* yaml.dump(profile, sort_keys=False): one "key: value" line per pair, in
\* the order of the dict
Dump(doc) ==
    [i \in 1..Len(doc) |-> [key |-> doc[i][1], scalar |-> doc[i][2]]]

\* the state of the update script while the export script runs
UpdateIdle ==
    /\ pc = "exit"
    /\ current = <<>> /\ new = <<>> /\ assignments = <<>>
    /\ row = 0 /\ good = 0
    /\ bad_network = <<>> /\ bad_profiles = <<>> /\ bad_aps = <<>>
    /\ updates = <<>>
    /\ net = 0 /\ prof = 0 /\ upc = "idle"
    /\ aps = <<>> /\ ap = 0 /\ rfid = NoId
    /\ errors = <<>> /\ calls = <<>>

InitExport ==
    /\ UpdateIdle
    /\ export_pc = "fetch"
    /\ path_exists \in BOOLEAN
    /\ fetched = <<>>
    /\ rf_list = <<>>
    /\ written = 0
    /\ directory = <<>>

\* main: rf_profiles = getRFProfiles(dashboard, network)
ExportFetch ==
    /\ export_pc = "fetch"
    /\ \E response \in ExportResponses :
          /\ fetched' = response
          /\ rf_list' = response
    /\ export_pc' = "write"
    /\ UNCHANGED <<updateVars, path_exists, written, directory>>

\* the body of the loop of writeData up to the open
Stripped(doc) == Del(Del(doc, "networkId"), "id")

\* one turn of the loop of writeData, the file opened and written
WriteProfile ==
    /\ export_pc = "write"
    /\ written < Len(rf_list)
    /\ path_exists
    /\ LET doc == Stripped(rf_list[written + 1])
           filename == FileName(DictGet(doc, "name"))
       IN /\ rf_list' = [rf_list EXCEPT ![written + 1] = doc]
          /\ directory' = DictPut(directory, filename, Dump(doc))
    /\ written' = written + 1
    /\ UNCHANGED <<updateVars, export_pc, path_exists, fetched>>

\* one turn of the loop of writeData, FileNotFoundError: sys.exit(1)
WriteFail ==
    /\ export_pc = "write"
    /\ written < Len(rf_list)
    /\ ~path_exists
    /\ rf_list' = [rf_list EXCEPT ![written + 1] = Stripped(rf_list[written + 1])]
    /\ export_pc' = "exit"
    /\ UNCHANGED <<updateVars, path_exists, fetched, written, directory>>

\* the loop of writeData is over
WriteDone ==
    /\ export_pc = "write"
    /\ written = Len(rf_list)
    /\ export_pc' = "done"
    /\ UNCHANGED <<updateVars, path_exists, fetched, rf_list, written, directory>>

NextExport == ExportFetch \/ WriteProfile \/ WriteFail \/ WriteDone

SpecExport == InitExport /\ [][NextExport]_vars

\* yaml.load of a written file: the pairs of its lines
Loaded(content) == [i \in 1..Len(content) |-> <<content[i].key, content[i].scalar>>]

\* the fields of a document other than the remote-assigned ones
RemoteFields == {"id", "networkId"}
OtherFields(doc) == SelectSeq(doc, LAMBDA pair : pair[1] \notin RemoteFields)

\* the fetched rf_list already written whose file has the name f
WrittenAs(f) == { i \in 1..written : FileName(DictGet(fetched[i], "name")) = f }

\* C18: every file of the directory is the document of a fetched profile
\* that writeData has written under that name (the last one, when several
\* names give the same file name): loaded as a template it has neither id
\* nor networkId, and it has every other field of the fetched profile, with
\* its value and in its place; and every profile written has its file.
C18_ExportStripsRemoteFields ==
    /\ \A f \in 1..Len(directory) :
          LET template == Loaded(directory[f][2])
              from == WrittenAs(directory[f][1])
          IN /\ from # {}
             /\ \A pair \in Elems(template) : pair[1] \notin RemoteFields
             /\ template = OtherFields(fetched[CHOOSE i \in from : \A j \in from : j <= i])
    /\ \A i \in 1..written : DictHas(directory, FileName(DictGet(fetched[i], "name")))

\* an export that is over and has written two files, the fetched profiles
\* carrying id and networkId
C18_Witness ==
    /\ export_pc = "done"
    /\ written = MaxProfiles
    /\ Len(directory) = 2
    /\ \A i \in 1..written : DictHas(fetched[i], "id") /\ DictHas(fetched[i], "networkId")

-----------------------------------------------------------------------------
\* the number of places of seq that hold e
Count(seq, e) == Cardinality({ i \in 1..Len(seq) : seq[i] = e })

\* the rows validateAssignments has processed
Processed == SubSeq(assignments, 1, row)

\* C19: the rows processed so far are partitioned: the accepted count and
\* the lengths of the three rejection lists add up to the number of rows
\* processed, an accepted row is in no rejection list, and a rejected row
\* is in one rejection list only, as many times as the table has it.
C19_RowsPartitioned ==
    /\ good + Len(bad_network) + Len(bad_profiles) + Len(bad_aps) = row
    /\ \A e \in Elems(Processed) :
          LET inNetwork == Count(bad_network, e)
              inProfiles == Count(bad_profiles, e)
              inAps == Count(bad_aps, e)
          IN IF RowAccepted(e)
             THEN inNetwork + inProfiles + inAps = 0
             ELSE /\ inNetwork + inProfiles + inAps = Count(Processed, e)
                  /\ Cardinality({ n \in {inNetwork, inProfiles, inAps} : n # 0 }) = 1

====
